---- MODULE Spec2Model ----
(***************************************************************************)
(* Personal Task Assistant: the task store (tasks.json), the recurrence    *)
(* calculator next_due, the task management functions add_task,            *)
(* delete_task and mark_done (assistant.py) and the reminder poll cycle    *)
(* check_tasks (reminder.py), the speak and notify channels, the           *)
(* recurrence cues of extract_recurrence and parse_nlp_task, and the       *)
(* scheduler loop of start_reminders.                                      *)
(*                                                                         *)
(* A due string is modelled by what strptime reads in it: the five number  *)
(* fields, whether some field is written without its leading zero          *)
(* (unpadded), and whether the text does not have the shape                *)
(* "Y-m-d H:M" at all (junk).  Python's None is the string None for the    *)
(* recurrence and the empty sequence for minutes_interval (<<n>> is the    *)
(* integer n).  A description is a sequence of characters.                 *)
(***************************************************************************)
EXTENDS Integers, Sequences, FiniteSets, TLC

VARIABLES
    file,     \* content of tasks.json: the persisted sequence of task records
    now,      \* the wall clock, a datetime at minute granularity
    call,     \* the operation performed last, its arguments, and in prev what
              \* the operation before it did when it was of the same kind
    pre,      \* content of tasks.json when that operation started
    ret,      \* how that operation returned: error raised, warning spoken
    notes,    \* indices notified (notify + speak) by that operation, in order
    writes,   \* number of save_tasks calls that operation made
    nAdv,     \* number of reschedulings so far (bounds the run)
    calc,     \* next_due applied as a pure function: its arguments and result
    raw,      \* whether the text of tasks.json parses ("ok") or a writer has
              \* truncated or garbled it ("torn"); file is the list last dumped
    fg,       \* the foreground thread inside a task management function
    sch,      \* the scheduler thread inside check_tasks
    kept,     \* add_task calls that returned minus delete_task calls that did
    damaged,  \* some load_tasks found the text unparsable and returned [], or
              \* some dump went into a file the other thread had dumped into
    stale,    \* for each thread whether the other has dumped since it loaded,
              \* which thread dumped last, and whether that dump came from a
              \* list loaded before the other thread's latest dump
    chan,     \* whether the notification and voice back ends work ("up") or
              \* raise when called ("down")
    nlp,      \* a freeform text and what the two extraction functions made of it
    timer     \* the scheduler loop of start_reminders on a clock in seconds

\* the history of the last completed handler
hist == <<call, pre, ret, notes, writes>>

\* the threads between their load and their save
race == <<raw, fg, sch, kept, damaged, stale>>

\* what only the specifications about the channels, the text extraction and
\* the scheduler loop move
aux == <<chan, nlp, timer>>

vars == <<file, now, hist, nAdv, calc, race, aux>>

----------------------------------------------------------------------------
(* Bounds of the model *)

MaxTasks == 2
MaxAdv == 2

----------------------------------------------------------------------------
(* Python values *)

None == "None"

NoInterval == <<>>

\* truth value of a minutes_interval: None and 0 are false
Truthy(iv) == Len(iv) > 0 /\ iv[1] # 0

\* truth value of a recurrence: None and "" are false
RecTruthy(recurrence) == recurrence # None /\ recurrence # ""

MINYEAR == 1

MAXYEAR == 9999

----------------------------------------------------------------------------
(* datetime: calendar arithmetic as the standard library computes it *)

DateTime(y, mo, d, h, mi) == [y |-> y, mo |-> mo, d |-> d, h |-> h, mi |-> mi]

IsLeap(y) == y % 4 = 0 /\ (y % 100 # 0 \/ y % 400 = 0)

\* calendar.monthrange(year, month)[1]
DaysInMonth(y, mo) ==
    IF mo = 2 THEN (IF IsLeap(y) THEN 29 ELSE 28)
    ELSE IF mo \in {4, 6, 9, 11} THEN 30 ELSE 31

DaysBeforeYear(y) ==
    LET p == y - 1 IN p * 365 + (p \div 4) - (p \div 100) + (p \div 400)

RECURSIVE DaysBeforeMonth(_, _)
DaysBeforeMonth(y, mo) ==
    IF mo = 1 THEN 0 ELSE DaysBeforeMonth(y, mo - 1) + DaysInMonth(y, mo - 1)

\* date.toordinal(): 0001-01-01 is day 1
ToOrdinal(y, mo, d) == DaysBeforeYear(y) + DaysBeforeMonth(y, mo) + d

MaxOrdinal == ToOrdinal(MAXYEAR, 12, 31)

\* the month of the n-th day (n >= 0) of year y, searched upwards from month mo
RECURSIVE MonthOfYearDay(_, _, _)
MonthOfYearDay(y, n, mo) ==
    IF n < DaysBeforeMonth(y, mo) + DaysInMonth(y, mo) THEN mo
    ELSE MonthOfYearDay(y, n, mo + 1)

\* date.fromordinal(n): 400-, 100-, 4- and 1-year cycles
FromOrdinal(ord) ==
    LET n0   == ord - 1
        n400 == n0 \div 146097
        r400 == n0 % 146097
        n100 == r400 \div 36524
        r100 == r400 % 36524
        n4   == r100 \div 1461
        r4   == r100 % 1461
        n1   == r4 \div 365
        r1   == r4 % 365
        year == n400 * 400 + n100 * 100 + n4 * 4 + n1 + 1
    IN  IF n1 = 4 \/ n100 = 4
        THEN [y |-> year - 1, mo |-> 12, d |-> 31]
        ELSE LET mo == MonthOfYearDay(year, r1, 1)
             IN  [y |-> year, mo |-> mo, d |-> r1 - DaysBeforeMonth(year, mo) + 1]

\* datetime(year, month, day, hour, minute) raises ValueError out of range
ValidDateTime(y, mo, d, h, mi) ==
    /\ y \in MINYEAR..MAXYEAR
    /\ mo \in 1..12
    /\ d >= 1 /\ d <= DaysInMonth(y, mo)
    /\ h \in 0..23
    /\ mi \in 0..59

Raise(kind) == [ok |-> FALSE, err |-> kind, dt |-> DateTime(0, 0, 0, 0, 0)]

Return(dt) == [ok |-> TRUE, err |-> "none", dt |-> dt]

\* dt + timedelta(days=days, minutes=minutes); OverflowError past date.max
PlusTimedelta(dt, days, minutes) ==
    LET m   == dt.h * 60 + dt.mi + minutes
        ord == ToOrdinal(dt.y, dt.mo, dt.d) + days + (m \div 1440)
        hm  == m % 1440
    IN  IF ord >= 1 /\ ord <= MaxOrdinal
        THEN LET ymd == FromOrdinal(ord)
             IN  Return(DateTime(ymd.y, ymd.mo, ymd.d, hm \div 60, hm % 60))
        ELSE Raise("OverflowError")

----------------------------------------------------------------------------
(* Due strings: "%Y-%m-%d %H:%M" *)

DueStr(y, mo, d, h, mi, unpadded, junk) ==
    [y |-> y, mo |-> mo, d |-> d, h |-> h, mi |-> mi,
     unpadded |-> unpadded, junk |-> junk]

\* a text that is no "Y-m-d H:M" at all, e.g. "not-a-date" or ""
JunkDue == DueStr(0, 0, 0, 0, 0, FALSE, TRUE)

\* datetime.strptime(due_str, "%Y-%m-%d %H:%M"): leading zeros are optional
Strptime(s) ==
    IF s.junk \/ ~ValidDateTime(s.y, s.mo, s.d, s.h, s.mi)
    THEN Raise("ValueError")
    ELSE Return(DateTime(s.y, s.mo, s.d, s.h, s.mi))

\* dt.strftime("%Y-%m-%d %H:%M"): always zero padded
Strftime(dt) == DueStr(dt.y, dt.mo, dt.d, dt.h, dt.mi, FALSE, FALSE)

validate_due_str(due_str) == Strptime(due_str).ok

----------------------------------------------------------------------------
(* Recurrence calculator *)

\* add_months with the carry into the year forgotten
add_months_same_year(dt, months) ==
    LET month == ((dt.mo - 1 + months) % 12) + 1
        day   == IF dt.d < DaysInMonth(dt.y, month) THEN dt.d
                 ELSE DaysInMonth(dt.y, month)
    IN  Return(DateTime(dt.y, month, day, dt.h, dt.mi))

add_months(dt, months) ==
    LET m0    == dt.mo - 1 + months
        year  == dt.y + (m0 \div 12)
        month == (m0 % 12) + 1
        day   == IF dt.d < DaysInMonth(year, month) THEN dt.d
                 ELSE DaysInMonth(year, month)
    IN  IF ValidDateTime(year, month, day, dt.h, dt.mi)
        THEN Return(DateTime(year, month, day, dt.h, dt.mi))
        ELSE Raise("ValueError")

add_years(dt, years) ==
    LET year == dt.y + years
    IN  IF dt.mo = 2 /\ dt.d = 29
        THEN IF ValidDateTime(year, 2, 29, dt.h, dt.mi)
             THEN Return(DateTime(year, 2, 29, dt.h, dt.mi))
             ELSE IF ValidDateTime(year, 2, 28, dt.h, dt.mi)
                  THEN Return(DateTime(year, 2, 28, dt.h, dt.mi))
                  ELSE Raise("ValueError")
        ELSE IF ValidDateTime(year, dt.mo, dt.d, dt.h, dt.mi)
             THEN Return(DateTime(year, dt.mo, dt.d, dt.h, dt.mi))
             ELSE Raise("ValueError")

\* the result of next_due: ok with the new due string, or the error raised
Due(r) == [ok |-> r.ok, err |-> r.err, due |-> Strftime(r.dt)]

next_due(due_str, recurrence, minutes_interval) ==
    LET p == Strptime(due_str)
    IN  IF ~p.ok THEN Due(p)
        ELSE IF recurrence = "daily" THEN Due(PlusTimedelta(p.dt, 1, 0))
        ELSE IF recurrence = "weekly" THEN Due(PlusTimedelta(p.dt, 7, 0))
        ELSE IF recurrence = "monthly" THEN Due(add_months(p.dt, 1))
        ELSE IF recurrence = "yearly" THEN Due(add_years(p.dt, 1))
        ELSE IF recurrence = "every_x_minutes"
             THEN IF ~Truthy(minutes_interval)
                  THEN Due(Raise("MissingInterval"))
                  ELSE Due(PlusTimedelta(p.dt, 0, minutes_interval[1]))
        ELSE Due(Raise("InvalidRecurrence"))

----------------------------------------------------------------------------
(* Task records and the store *)

Task(description, due, done, recurrence, minutes_interval) ==
    [description |-> description, due |-> due, done |-> done,
     recurrence |-> recurrence, minutes_interval |-> minutes_interval]

\* str.strip() on a description
RECURSIVE LStrip(_)
LStrip(s) == IF s # <<>> /\ Head(s) = " " THEN LStrip(Tail(s)) ELSE s

RECURSIVE RStrip(_)
RStrip(s) ==
    IF s # <<>> /\ s[Len(s)] = " " THEN RStrip(SubSeq(s, 1, Len(s) - 1)) ELSE s

Strip(s) == RStrip(LStrip(s))

valid_recurrences == {None, "daily", "weekly", "monthly", "yearly", "every_x_minutes"}

\* what a task management function did: the error it raised ("none" if it
\* returned), the list it left in tasks.json, the save_tasks calls it made,
\* and whether it spoke the rescheduling warning
Outcome(err, tasks, saves, warn) ==
    [err |-> err, tasks |-> tasks, saves |-> saves, warn |-> warn]

\* add_task that only rejects a missing or zero interval
add_task_accepts_negative(tasks, description, due_str, recurrence, minutes_interval) ==
    IF Strip(description) = <<>> THEN Outcome("EmptyDescription", tasks, 0, FALSE)
    ELSE IF ~validate_due_str(due_str) THEN Outcome("InvalidDueFormat", tasks, 0, FALSE)
    ELSE IF recurrence \notin valid_recurrences
         THEN Outcome("InvalidRecurrence", tasks, 0, FALSE)
    ELSE IF recurrence = "every_x_minutes" /\ ~Truthy(minutes_interval)
         THEN Outcome("InvalidInterval", tasks, 0, FALSE)
    ELSE Outcome("none",
                 Append(tasks, Task(Strip(description), due_str, FALSE, recurrence,
                                    IF recurrence = "every_x_minutes"
                                    THEN minutes_interval ELSE NoInterval)),
                 1, FALSE)

\* add_task that stores whatever interval it was given
add_task_keeps_interval(tasks, description, due_str, recurrence, minutes_interval) ==
    IF Strip(description) = <<>> THEN Outcome("EmptyDescription", tasks, 0, FALSE)
    ELSE IF ~validate_due_str(due_str) THEN Outcome("InvalidDueFormat", tasks, 0, FALSE)
    ELSE IF recurrence \notin valid_recurrences
         THEN Outcome("InvalidRecurrence", tasks, 0, FALSE)
    ELSE IF recurrence = "every_x_minutes"
            /\ (~Truthy(minutes_interval) \/ minutes_interval[1] <= 0)
         THEN Outcome("InvalidInterval", tasks, 0, FALSE)
    ELSE Outcome("none",
                 Append(tasks, Task(Strip(description), due_str, FALSE,
                                    recurrence, minutes_interval)),
                 1, FALSE)

add_task(tasks, description, due_str, recurrence, minutes_interval) ==
    IF Strip(description) = <<>> THEN Outcome("EmptyDescription", tasks, 0, FALSE)
    ELSE IF ~validate_due_str(due_str) THEN Outcome("InvalidDueFormat", tasks, 0, FALSE)
    ELSE IF recurrence \notin valid_recurrences
         THEN Outcome("InvalidRecurrence", tasks, 0, FALSE)
    ELSE IF recurrence = "every_x_minutes"
         THEN IF ~Truthy(minutes_interval) \/ minutes_interval[1] <= 0
              THEN Outcome("InvalidInterval", tasks, 0, FALSE)
              ELSE Outcome("none",
                           Append(tasks, Task(Strip(description), due_str, FALSE,
                                              recurrence, minutes_interval)),
                           1, FALSE)
    ELSE Outcome("none",
                 Append(tasks, Task(Strip(description), due_str, FALSE,
                                    recurrence, NoInterval)),
                 1, FALSE)

\* the position in 1..Len(tasks) that Python's tasks[index] denotes: indices
\* count from 0, and a negative index counts from the end
Pos(tasks, index) == IF index < 0 THEN Len(tasks) + index + 1 ELSE index + 1

\* list.pop(index)
Pop(tasks, index) ==
    SubSeq(tasks, 1, Pos(tasks, index) - 1)
        \o SubSeq(tasks, Pos(tasks, index) + 1, Len(tasks))

\* the range check with its lower bound forgotten: a negative index then
\* reaches Python's indexing from the end
IndexInRange_no_lower(tasks, index) == -Len(tasks) <= index /\ index < Len(tasks)

IndexInRange(tasks, index) == 0 <= index /\ index < Len(tasks)

delete_task(tasks, index) ==
    IF IndexInRange(tasks, index)
    THEN Outcome("none", Pop(tasks, index), 1, FALSE)
    ELSE Outcome("IndexOutOfRange", tasks, 0, FALSE)

\* Reschedule that closes the task after advancing it
Reschedule_closes(task) ==
    LET r == next_due(task.due, task.recurrence, task.minutes_interval)
    IN  IF r.ok
        THEN [task EXCEPT !.due = r.due, !.done = TRUE]
        ELSE [task EXCEPT !.done = TRUE]

\* Reschedule that rebuilds the task without its interval
Reschedule_forgets_interval(task) ==
    LET r == next_due(task.due, task.recurrence, task.minutes_interval)
    IN  IF r.ok
        THEN Task(task.description, r.due, FALSE, task.recurrence, NoInterval)
        ELSE [task EXCEPT !.done = TRUE]

\* the try/except of mark_done around next_due
Reschedule(task) ==
    LET r == next_due(task.due, task.recurrence, task.minutes_interval)
    IN  IF r.ok
        THEN [task EXCEPT !.due = r.due, !.done = FALSE]
        ELSE [task EXCEPT !.done = TRUE]

\* mark_done that sets done whatever the caller asked for
mark_done_ignores_flag(tasks, index, done) ==
    IF IndexInRange(tasks, index)
    THEN LET task == tasks[Pos(tasks, index)]
         IN  IF done /\ RecTruthy(task.recurrence)
             THEN Outcome("none",
                          [tasks EXCEPT ![Pos(tasks, index)] = Reschedule(task)],
                          1,
                          ~next_due(task.due, task.recurrence,
                                    task.minutes_interval).ok)
             ELSE Outcome("none",
                          [tasks EXCEPT ![Pos(tasks, index)] =
                                            [task EXCEPT !.done = TRUE]],
                          1, FALSE)
    ELSE Outcome("IndexOutOfRange", tasks, 0, FALSE)

mark_done(tasks, index, done) ==
    IF IndexInRange(tasks, index)
    THEN LET task == tasks[Pos(tasks, index)]
         IN  IF done /\ RecTruthy(task.recurrence)
             THEN Outcome("none",
                          [tasks EXCEPT ![Pos(tasks, index)] = Reschedule(task)],
                          1,
                          ~next_due(task.due, task.recurrence,
                                    task.minutes_interval).ok)
             ELSE Outcome("none",
                          [tasks EXCEPT ![Pos(tasks, index)] =
                                            [task EXCEPT !.done = done]],
                          1, FALSE)
    ELSE Outcome("IndexOutOfRange", tasks, 0, FALSE)

----------------------------------------------------------------------------
(* Reminder poll cycle *)

now_minute(dt) == Strftime(dt)

\* IsDue that also fires the tasks whose minute has passed (catch-up)
IsDue_or_overdue(task, now_str) ==
    /\ ~task.done
    /\ Strptime(task.due).ok
    /\ ~( \/ ToOrdinal(now_str.y, now_str.mo, now_str.d)
                < ToOrdinal(task.due.y, task.due.mo, task.due.d)
          \/ /\ ToOrdinal(now_str.y, now_str.mo, now_str.d)
                = ToOrdinal(task.due.y, task.due.mo, task.due.d)
             /\ now_str.h * 60 + now_str.mi < task.due.h * 60 + task.due.mi )

\* IsDue that lets a recurring task catch up on a minute it missed
IsDue_catches_up(task, now_str) ==
    /\ ~task.done
    /\ \/ task.due = now_str
       \/ /\ RecTruthy(task.recurrence)
          /\ Strptime(task.due).ok
          /\ \/ ToOrdinal(task.due.y, task.due.mo, task.due.d)
                   < ToOrdinal(now_str.y, now_str.mo, now_str.d)
             \/ /\ ToOrdinal(task.due.y, task.due.mo, task.due.d)
                      = ToOrdinal(now_str.y, now_str.mo, now_str.d)
                /\ task.due.h * 60 + task.due.mi < now_str.h * 60 + now_str.mi

\* the condition of line 27; an empty due is skipped before it and could
\* not equal now_str either
IsDue(task, now_str) == (~task.done) /\ task.due = now_str

\* FireTask that leaves the task pending when next_due fails
FireTask_stays_open(task) ==
    IF RecTruthy(task.recurrence) \/ Truthy(task.minutes_interval)
    THEN LET r == next_due(task.due, task.recurrence, task.minutes_interval)
         IN  IF r.ok
             THEN [task EXCEPT !.due = r.due, !.done = FALSE]
             ELSE task
    ELSE [task EXCEPT !.done = TRUE]

\* FireTask that does not close a one-time task
FireTask_no_close(task) ==
    IF RecTruthy(task.recurrence) \/ Truthy(task.minutes_interval)
    THEN LET r == next_due(task.due, task.recurrence, task.minutes_interval)
         IN  IF r.ok
             THEN [task EXCEPT !.due = r.due, !.done = FALSE]
             ELSE [task EXCEPT !.done = TRUE]
    ELSE task

\* lines 34-49: what a firing leaves in the task
FireTask(task) ==
    IF RecTruthy(task.recurrence) \/ Truthy(task.minutes_interval)
    THEN LET r == next_due(task.due, task.recurrence, task.minutes_interval)
         IN  IF r.ok
             THEN [task EXCEPT !.due = r.due, !.done = FALSE]
             ELSE [task EXCEPT !.done = TRUE]
    ELSE [task EXCEPT !.done = TRUE]

\* the indices (from 0), in list order, of the tasks due at now_str
RECURSIVE IndicesFrom(_, _, _)
IndicesFrom(tasks, now_str, i) ==
    IF i > Len(tasks) THEN <<>>
    ELSE (IF IsDue(tasks[i], now_str) THEN <<i - 1>> ELSE <<>>)
         \o IndicesFrom(tasks, now_str, i + 1)

\* check_tasks that saves at the end of every pass
check_tasks_always_saves(tasks, now_str) ==
    [tasks |-> [i \in 1..Len(tasks) |->
                   IF IsDue(tasks[i], now_str) THEN FireTask(tasks[i])
                   ELSE tasks[i]],
     notes |-> IndicesFrom(tasks, now_str, 1),
     updated |-> TRUE]

\* one pass of check_tasks over the loaded list: the list it holds at the
\* end, the tasks it notified, and whether it saves
check_tasks(tasks, now_str) ==
    LET fired == IndicesFrom(tasks, now_str, 1)
        after == [i \in 1..Len(tasks) |->
                    IF IsDue(tasks[i], now_str) THEN FireTask(tasks[i])
                    ELSE tasks[i]]
    IN  [tasks |-> after, notes |-> fired, updated |-> fired # <<>>]

\* number of tasks of the list that a firing or completion reschedules
Advances(old, new) ==
    Cardinality({i \in 1..Len(old) : i <= Len(new) /\ old[i].due # new[i].due})

----------------------------------------------------------------------------
(* Inputs *)

Eve == DateTime(2025, 12, 31, 23, 59)

NewYear == DateTime(2026, 1, 1, 0, 0)

Last == DateTime(MAXYEAR, 12, 31, 23, 59)

\* the minutes at which the clock is looked at
ClockValues == { Eve, NewYear, Last }

\* "2026-1-1 0:0": the minute NewYear written without leading zeros
Unpadded == DueStr(2026, 1, 1, 0, 0, TRUE, FALSE)

\* "2025-02-30 10:00": no such day
NoSuchDay == DueStr(2025, 2, 30, 10, 0, FALSE, FALSE)

Args(description, due, recurrence, minutes_interval) ==
    [description |-> description, due |-> due, recurrence |-> recurrence,
     minutes_interval |-> minutes_interval]

\* the argument lists of add_task tried together with the other operations
ShapeArgs ==
    { Args(<<"a">>, Strftime(Eve), None, NoInterval),
      Args(<<"a">>, Strftime(Eve), "daily", NoInterval),
      Args(<<" ", "b", " ">>, Strftime(Eve), "every_x_minutes", <<1>>),
      Args(<<"a">>, Strftime(Last), "daily", NoInterval),
      Args(<<" ">>, Strftime(Eve), "every_x_minutes", <<0>>) }

\* the argument lists of add_task tried on their own: every combination
AddArgs ==
    [description : { <<>>, <<" ">>, <<" ", "b", " ">> },
     due : { Strftime(Eve), Unpadded, NoSuchDay, JunkDue },
     recurrence : { None, "daily", "every_x_minutes", "hourly" },
     minutes_interval : { NoInterval, <<0>>, <<-1>>, <<1>> }]

\* t1 is strictly before t2
Before(t1, t2) ==
    \/ ToOrdinal(t1.y, t1.mo, t1.d) < ToOrdinal(t2.y, t2.mo, t2.d)
    \/ /\ ToOrdinal(t1.y, t1.mo, t1.d) = ToOrdinal(t2.y, t2.mo, t2.d)
       /\ t1.h * 60 + t1.mi < t2.h * 60 + t2.mi

----------------------------------------------------------------------------
(* State machine: every handler runs to completion *)

Call(op, a, index, done, prev) ==
    [op |-> op, description |-> a.description, due |-> a.due,
     recurrence |-> a.recurrence, minutes_interval |-> a.minutes_interval,
     index |-> index, done |-> done, prev |-> prev]

NoArgs ==
    [description |-> <<>>, due |-> JunkDue, recurrence |-> None,
     minutes_interval |-> NoInterval]

Returned(err, warn) == [err |-> err, warn |-> warn]

\* a thread: where it is (idle, about to open tasks.json for writing, about
\* to dump), the list it is going to dump, whether the other thread dumped
\* after this one opened, and what its return adds to kept
Thread(pc, tasks, clobbered, delta) ==
    [pc |-> pc, tasks |-> tasks, clobbered |-> clobbered, delta |-> delta]

IdleThread == Thread("idle", <<>>, FALSE, 0)

\* nothing dumped yet
Fresh == [fg |-> FALSE, sch |-> FALSE, last |-> "none", lost |-> FALSE]

\* no thread is inside a handler and tasks.json holds the list file
Quiet ==
    /\ raw = "ok"
    /\ fg = IdleThread
    /\ sch = IdleThread
    /\ kept = 0
    /\ damaged = FALSE
    /\ stale = Fresh

\* no text extracted yet
IdleNlp ==
    [text |-> <<>>, dated |-> FALSE, applied |-> FALSE,
     rec |-> [recurrence |-> None, minutes_interval |-> NoInterval],
     ui |-> [err |-> "none", recurrence |-> None, minutes_interval |-> NoInterval]]

\* the scheduler loop not started
IdleTimer == [pc |-> "off", sec |-> 0, next_run |-> 0, polled |-> {}]

\* back ends working, nothing extracted, scheduler loop not started
Still ==
    /\ chan = "up"
    /\ nlp = IdleNlp
    /\ timer = IdleTimer

IdleCalc ==
    [due |-> JunkDue, recurrence |-> None, minutes_interval |-> NoInterval,
     applied |-> FALSE, res |-> Due(Raise("none"))]

Init ==
    /\ file = <<>>
    /\ now \in ClockValues
    /\ call = Call("start", NoArgs, 0, FALSE, <<>>)
    /\ pre = <<>>
    /\ ret = Returned("none", FALSE)
    /\ notes = <<>>
    /\ writes = 0
    /\ nAdv = 0
    /\ calc = IdleCalc
    /\ Quiet
    /\ Still

\* json.load of tasks.json; [] when the text does not parse
load_tasks == IF raw = "ok" THEN file ELSE <<>>

\* the effect of a task management function on the store and the history
Finish(c, out) ==
    /\ nAdv + Advances(file, out.tasks) <= MaxAdv
    /\ file' = IF out.saves > 0 THEN out.tasks ELSE file
    /\ pre' = file
    /\ call' = c
    /\ ret' = Returned(out.err, out.warn)
    /\ notes' = <<>>
    /\ writes' = out.saves
    /\ nAdv' = nAdv + Advances(file, out.tasks)
    /\ UNCHANGED <<aux, now, calc, race>>

AddTaskFrom(S) ==
    \E a \in S :
        LET out == add_task(load_tasks, a.description, a.due, a.recurrence,
                            a.minutes_interval)
        IN  /\ Len(out.tasks) <= MaxTasks
            /\ Finish(Call("add_task", a, 0, FALSE, <<>>), out)

AddTask == AddTaskFrom(ShapeArgs)

DeleteTask ==
    \E index \in -1..Len(file) :
        Finish(Call("delete_task", NoArgs, index, FALSE, <<>>),
               delete_task(load_tasks, index))

MarkDone ==
    \E index \in -1..Len(file), done \in BOOLEAN :
        Finish(Call("mark_done", NoArgs, index, done,
                    IF call.op = "mark_done" /\ call.done /\ ret.err = "none"
                    THEN <<call.index>> ELSE <<>>),
               mark_done(load_tasks, index, done))

\* one poll cycle: load, the pass over the list, one save if a task fired
Poll ==
    LET out == check_tasks(load_tasks, now_minute(now))
    IN  /\ nAdv + Advances(file, out.tasks) <= MaxAdv
        /\ file' = IF out.updated THEN out.tasks ELSE file
        /\ pre' = file
        /\ call' = Call("check_tasks", NoArgs, 0, FALSE,
                        IF call.op = "check_tasks" THEN notes ELSE <<>>)
        /\ ret' = Returned("none", FALSE)
        /\ notes' = out.notes
        /\ writes' = IF out.updated THEN 1 ELSE 0
        /\ nAdv' = nAdv + Advances(file, out.tasks)
        /\ UNCHANGED <<aux, now, calc, race>>

\* the clock moves on to a later minute
Tick ==
    /\ \E t \in ClockValues : Before(now, t) /\ now' = t
    /\ pre' = file
    /\ call' = Call("tick", NoArgs, 0, FALSE, <<>>)
    /\ ret' = Returned("none", FALSE)
    /\ notes' = <<>>
    /\ writes' = 0
    /\ UNCHANGED <<aux, file, nAdv, calc, race>>

Next == AddTask \/ DeleteTask \/ MarkDone \/ Poll \/ Tick

Spec == Init /\ [][Next]_vars

----------------------------------------------------------------------------
(* The foreground thread and the scheduler thread interleaved: each loads  *)
(* the list, works on its copy, opens tasks.json for writing (which        *)
(* truncates it) and dumps its copy.  Nothing locks the file.              *)

\* the one shape of task the foreground thread adds
RaceArgs == { Args(<<" ", "b", " ">>, Strftime(Eve), "every_x_minutes", <<1>>) }

\* a handler of the foreground thread up to its save_tasks call; a call that
\* raises leaves everything as it was
FgBegin(out, delta) ==
    /\ fg.pc = "idle"
    /\ out.err = "none"
    /\ Len(out.tasks) <= MaxTasks
    /\ nAdv + Advances(load_tasks, out.tasks) <= MaxAdv
    /\ nAdv' = nAdv + Advances(load_tasks, out.tasks)
    /\ fg' = Thread("open", out.tasks, FALSE, delta)
    /\ damaged' = (damaged \/ raw # "ok")
    /\ stale' = [stale EXCEPT !.fg = FALSE]
    /\ UNCHANGED <<aux, file, now, hist, calc, raw, sch, kept>>

FgAdd ==
    \E a \in RaceArgs :
        /\ kept < MaxTasks
        /\ FgBegin(add_task(load_tasks, a.description, a.due, a.recurrence,
                            a.minutes_interval), 1)

FgDelete ==
    \E index \in 0..MaxTasks :
        /\ kept > 0
        /\ FgBegin(delete_task(load_tasks, index), -1)

FgMarkDone ==
    \E index \in 0..MaxTasks, done \in BOOLEAN :
        FgBegin(mark_done(load_tasks, index, done), 0)

\* check_tasks up to its save_tasks call: the list it loaded and the tasks
\* it notified are on record, its save is still to come; a pass that fires
\* nothing saves nothing
SchBegin ==
    LET out == check_tasks(load_tasks, now_minute(now))
    IN  /\ sch.pc = "idle"
        /\ out.updated
        /\ nAdv + Advances(load_tasks, out.tasks) <= MaxAdv
        /\ nAdv' = nAdv + Advances(load_tasks, out.tasks)
        /\ sch' = Thread("open", out.tasks, FALSE, 0)
        /\ damaged' = (damaged \/ raw # "ok")
        /\ stale' = [stale EXCEPT !.sch = FALSE]
        /\ pre' = load_tasks
        /\ call' = Call("check_tasks", NoArgs, 0, FALSE, <<>>)
        /\ ret' = Returned("none", FALSE)
        /\ notes' = out.notes
        /\ writes' = 0
        /\ UNCHANGED <<aux, file, now, calc, raw, fg, kept>>

\* open(TASKS_FILE, "w"): the file is empty until the dump
FgOpen ==
    /\ fg.pc = "open"
    /\ fg' = [fg EXCEPT !.pc = "dump"]
    /\ raw' = "torn"
    /\ UNCHANGED <<aux, file, now, hist, nAdv, calc, sch, kept, damaged, stale>>

SchOpen ==
    /\ sch.pc = "open"
    /\ sch' = [sch EXCEPT !.pc = "dump"]
    /\ raw' = "torn"
    /\ UNCHANGED <<aux, file, now, hist, nAdv, calc, fg, kept, damaged, stale>>

\* a dump that gives way to a list longer than its own
Dumped_keeps_longer(me, other) ==
    /\ me.pc = "dump"
    /\ file' = IF Len(file) > Len(me.tasks) THEN file ELSE me.tasks
    /\ raw' \in (IF me.clobbered THEN {"ok", "torn"} ELSE {"ok"})
    /\ kept' = kept + me.delta
    /\ damaged' = (damaged \/ me.clobbered)

\* json.dump and close.  Both writers write from offset 0: a dump that comes
\* after the other thread's dump into the same truncated file leaves its own
\* text, or its own text followed by the rest of the other, which is garbage
Dumped(me, other) ==
    /\ me.pc = "dump"
    /\ file' = me.tasks
    /\ raw' \in (IF me.clobbered THEN {"ok", "torn"} ELSE {"ok"})
    /\ kept' = kept + me.delta
    /\ damaged' = (damaged \/ me.clobbered)

FgDump ==
    /\ Dumped(fg, sch)
    /\ fg' = IdleThread
    /\ sch' = IF sch.pc = "dump" THEN [sch EXCEPT !.clobbered = TRUE] ELSE sch
    /\ stale' = [fg |-> FALSE, sch |-> (sch.pc # "idle"), last |-> "fg",
                 lost |-> stale.fg]
    /\ UNCHANGED <<aux, now, hist, nAdv, calc>>

SchDump ==
    /\ Dumped(sch, fg)
    /\ sch' = IdleThread
    /\ fg' = IF fg.pc = "dump" THEN [fg EXCEPT !.clobbered = TRUE] ELSE fg
    /\ stale' = [fg |-> (fg.pc # "idle"), sch |-> FALSE, last |-> "sch",
                 lost |-> stale.sch]
    /\ UNCHANGED <<aux, now, hist, nAdv, calc>>

RaceTick ==
    /\ \E t \in ClockValues : Before(now, t) /\ now' = t
    /\ UNCHANGED <<aux, file, hist, nAdv, calc, race>>

RaceNext ==
    \/ FgAdd \/ FgDelete \/ FgMarkDone \/ FgOpen \/ FgDump
    \/ SchBegin \/ SchOpen \/ SchDump
    \/ RaceTick

SpecRace == Init /\ [][RaceNext]_vars

----------------------------------------------------------------------------
(* add_task on its own, with every combination of arguments *)

AddAny == AddTaskFrom(AddArgs)

AddNext == AddAny

AddInit == Init /\ now = Eve

SpecAdd == AddInit /\ [][AddNext]_vars

----------------------------------------------------------------------------
(* The recurrence calculator on its own: next_due applied to chosen inputs *)

CalcDates ==
    { DateTime(2025, 1, 31, 9, 0), DateTime(2024, 1, 31, 9, 0),
      DateTime(2024, 2, 29, 8, 0), DateTime(2000, 2, 29, 8, 0),
      DateTime(2096, 2, 29, 8, 0), DateTime(2023, 2, 28, 23, 30),
      DateTime(2024, 2, 28, 23, 59), DateTime(1900, 2, 28, 12, 0),
      DateTime(2025, 6, 1, 10, 0), DateTime(2024, 3, 31, 0, 0),
      DateTime(2025, 12, 15, 12, 30), DateTime(2024, 12, 31, 23, 59),
      Eve, NewYear, DateTime(MAXYEAR, 12, 1, 0, 0),
      DateTime(MAXYEAR, 1, 1, 0, 1), Last }

CalcDues ==
    { Strftime(dt) : dt \in CalcDates }
    \cup { Unpadded, DueStr(2025, 6, 1, 10, 0, TRUE, FALSE), NoSuchDay, JunkDue }

CalcRecurrences ==
    { None, "", "daily", "weekly", "monthly", "yearly", "every_x_minutes", "hourly" }

CalcIntervals ==
    { NoInterval, <<0>>, <<-5>>, <<-1>>, <<1>>, <<5>>, <<90>>, <<1440>>,
      <<44640>> }

CalcInputs ==
    [due : CalcDues, recurrence : CalcRecurrences, minutes_interval : CalcIntervals,
     applied : {FALSE}, res : {Due(Raise("none"))}]

CalcInit ==
    /\ file = <<>>
    /\ now = Eve
    /\ call = Call("start", NoArgs, 0, FALSE, <<>>)
    /\ pre = <<>>
    /\ ret = Returned("none", FALSE)
    /\ notes = <<>>
    /\ writes = 0
    /\ nAdv = 0
    /\ calc \in CalcInputs
    /\ Quiet
    /\ Still

CalcApply ==
    /\ ~calc.applied
    /\ calc' = [calc EXCEPT !.applied = TRUE,
                            !.res = next_due(calc.due, calc.recurrence,
                                             calc.minutes_interval)]
    /\ UNCHANGED <<aux, file, now, hist, nAdv, race>>

CalcPick ==
    /\ calc.applied
    /\ calc' \in CalcInputs
    /\ UNCHANGED <<aux, file, now, hist, nAdv, race>>

CalcNext == CalcApply \/ CalcPick

SpecCalc == CalcInit /\ [][CalcNext]_vars

----------------------------------------------------------------------------
(* The calendar, stated without ordinals: what "one day later", "one month *)
(* later" and "one year later" mean                                        *)

RefLeap(y) == y % 400 = 0 \/ (y % 4 = 0 /\ y % 100 # 0)

RefLastDay(y, mo) ==
    CASE mo \in {1, 3, 5, 7, 8, 10, 12} -> 31
      [] mo \in {4, 6, 9, 11} -> 30
      [] OTHER -> IF RefLeap(y) THEN 29 ELSE 28

RefNextDay(dt) ==
    IF dt.d < RefLastDay(dt.y, dt.mo) THEN [dt EXCEPT !.d = dt.d + 1]
    ELSE IF dt.mo < 12 THEN [dt EXCEPT !.mo = dt.mo + 1, !.d = 1]
    ELSE [dt EXCEPT !.y = dt.y + 1, !.mo = 1, !.d = 1]

RECURSIVE RefPlusDays(_, _)
RefPlusDays(dt, k) == IF k = 0 THEN dt ELSE RefPlusDays(RefNextDay(dt), k - 1)

RefPlusMinutes(dt, n) ==
    LET m == dt.h * 60 + dt.mi + n
    IN  RefPlusDays([dt EXCEPT !.h = (m % 1440) \div 60, !.mi = m % 60], m \div 1440)

RefNextMonth(dt) ==
    LET y  == IF dt.mo = 12 THEN dt.y + 1 ELSE dt.y
        mo == IF dt.mo = 12 THEN 1 ELSE dt.mo + 1
    IN  [dt EXCEPT !.y = y, !.mo = mo,
                   !.d = IF dt.d > RefLastDay(y, mo) THEN RefLastDay(y, mo) ELSE dt.d]

RefNextYear(dt) ==
    IF dt.mo = 2 /\ dt.d = 29 /\ ~RefLeap(dt.y + 1)
    THEN [dt EXCEPT !.y = dt.y + 1, !.d = 28]
    ELSE [dt EXCEPT !.y = dt.y + 1]

RefAdvance(dt, recurrence, minutes_interval) ==
    CASE recurrence = "daily" -> RefPlusDays(dt, 1)
      [] recurrence = "weekly" -> RefPlusDays(dt, 7)
      [] recurrence = "monthly" -> RefNextMonth(dt)
      [] recurrence = "yearly" -> RefNextYear(dt)
      [] OTHER -> RefPlusMinutes(dt, minutes_interval[1])

KnownRecurrences == {"daily", "weekly", "monthly", "yearly", "every_x_minutes"}

\* the five fields a well-formed due string denotes
Fields(due) == DateTime(due.y, due.mo, due.d, due.h, due.mi)

WellFormed(due) ==
    /\ ~due.junk
    /\ due.mo \in 1..12 /\ due.d \in 1..RefLastDay(due.y, due.mo)
    /\ due.h \in 0..23 /\ due.mi \in 0..59
    /\ due.y \in 1..MAXYEAR

----------------------------------------------------------------------------
(* C8  advance (next_due) fails for every recurrence outside the five     *)
(* known kinds, and fails whenever recurrence = every_x_minutes and the   *)
(* interval is absent, zero or negative: it never returns a timestamp in  *)
(* those cases.                                                           *)
C8_FailsOnBadRecurrenceOrInterval ==
    (/\ calc.applied
     /\ \/ calc.recurrence \notin KnownRecurrences
        \/ /\ calc.recurrence = "every_x_minutes"
           /\ \/ calc.minutes_interval = NoInterval
              \/ calc.minutes_interval[1] <= 0)
    => ~calc.res.ok

(* C9  For every valid input (a well-formed due, one of the five kinds,   *)
(* a positive interval for every_x_minutes) next_due returns the calendar *)
(* result: +1 day, +7 days, +N minutes, one month later with the day      *)
(* clamped to the target month, one year later with Feb 29 clamped to     *)
(* Feb 28; when that result lies after year 9999 it raises instead.       *)
C9_CalendarCorrect ==
    (/\ calc.applied
     /\ WellFormed(calc.due)
     /\ calc.recurrence \in KnownRecurrences
     /\ calc.recurrence = "every_x_minutes" =>
            (calc.minutes_interval # NoInterval /\ calc.minutes_interval[1] > 0))
    => LET want == RefAdvance(Fields(calc.due), calc.recurrence,
                              calc.minutes_interval)
       IN  IF want.y <= MAXYEAR
           THEN calc.res.ok /\ calc.res.due = Strftime(want)
           ELSE ~calc.res.ok

\* a monthly advance whose day was clamped, and one that crossed the year
C9_Witness ==
    /\ calc.applied /\ calc.res.ok
    /\ calc.recurrence = "monthly"
    /\ calc.due.d = 31 /\ calc.res.due.d = 29 /\ calc.res.due.mo = 2

----------------------------------------------------------------------------
(* Vocabulary of the claims about the operations.  After an operation,    *)
(* pre is the list it found, file the list it left, call its arguments,   *)
(* ret and notes what it returned and notified.                           *)

Polled == call.op = "check_tasks"

\* number of times the task at position i was notified
Notified(i) == Cardinality({k \in 1..Len(notes) : notes[k] = i - 1})

Pending(task) == ~task.done

\* the task's due is the current minute, as the strings compare
DueNow(task) == task.due = Strftime(now)

Recurring(task) == task.recurrence # None

Blank(description) == \A k \in 1..Len(description) : description[k] = " "

\* the calendar has a next occurrence for the task
HasNext(task) ==
    /\ WellFormed(task.due)
    /\ task.recurrence \in KnownRecurrences
    /\ task.recurrence = "every_x_minutes" =>
           (task.minutes_interval # NoInterval /\ task.minutes_interval[1] > 0)
    /\ RefAdvance(Fields(task.due), task.recurrence, task.minutes_interval).y
           <= MAXYEAR

NextOccurrence(task) ==
    Strftime(RefAdvance(Fields(task.due), task.recurrence, task.minutes_interval))

Rescheduled(old, new) ==
    /\ new = [old EXCEPT !.due = new.due, !.done = FALSE]
    /\ Before(Fields(old.due), Fields(new.due))

Closed(old, new) == new = [old EXCEPT !.done = TRUE]

\* the earlier poll cycle of the same minute fired nothing that this one fires
NoRefire == \A k \in 1..Len(call.prev) : Notified(call.prev[k] + 1) = 0

ValidIndex == 0 <= call.index /\ call.index < Len(pre)

----------------------------------------------------------------------------
(* C1 as stated: a pending task due at the current minute is notified     *)
(* exactly once by a poll cycle and is then rescheduled if it has a       *)
(* recurrence (due advanced, done=false) and closed if it has none; a     *)
(* second poll cycle in the same minute does not fire it again.           *)
C1_Original ==
    Polled =>
        /\ Len(file) = Len(pre)
        /\ \A i \in 1..Len(pre) :
              (Pending(pre[i]) /\ DueNow(pre[i])) =>
                  /\ Notified(i) = 1
                  /\ IF Recurring(pre[i])
                     THEN Rescheduled(pre[i], file[i])
                     ELSE Closed(pre[i], file[i])
        /\ NoRefire

(* C1 amended: a pending task due at the current minute is notified       *)
(* exactly once by a poll cycle; it is then rescheduled (due set to the   *)
(* next occurrence, done=false) if it has a recurrence and the recurrence *)
(* calculator succeeds, and closed with its due kept if it has no         *)
(* recurrence or the calculator fails; a second poll cycle in the same    *)
(* minute does not fire it again.                                         *)
C1_FiresOnceThenReschedulesOrCloses ==
    Polled =>
        /\ Len(file) = Len(pre)
        /\ \A i \in 1..Len(pre) :
              (Pending(pre[i]) /\ DueNow(pre[i])) =>
                  /\ Notified(i) = 1
                  /\ IF Recurring(pre[i]) /\ HasNext(pre[i])
                     THEN /\ Rescheduled(pre[i], file[i])
                          /\ file[i].due = NextOccurrence(pre[i])
                     ELSE Closed(pre[i], file[i])
        /\ NoRefire

\* the second poll cycle of a minute, after a first one that rescheduled one
\* task and closed another
C1_Witness ==
    /\ Polled /\ Len(call.prev) = 2 /\ notes = <<>>
    /\ \E i, j \in 1..Len(file) :
          /\ Recurring(file[i]) /\ Pending(file[i])
          /\ Before(now, Fields(file[i].due))
          /\ ~Recurring(file[j]) /\ file[j].done /\ DueNow(file[j])

(* C2  A poll cycle notifies a task only if it is pending and its due is  *)
(* the current minute; a task that is done, or whose due is an earlier or *)
(* a later minute, is neither notified nor changed.                       *)
C2_FiresOnlyPendingDueNow ==
    Polled =>
        /\ Len(file) = Len(pre)
        /\ \A i \in 1..Len(pre) :
              /\ Notified(i) > 0 => (Pending(pre[i]) /\ DueNow(pre[i]))
              /\ (pre[i].done \/ Fields(pre[i].due) # now) =>
                     (Notified(i) = 0 /\ file[i] = pre[i])

\* a poll cycle that fired one task and passed over a pending task whose
\* minute was missed
C2_Witness ==
    /\ Polled
    /\ \E i, j \in 1..Len(pre) :
          /\ Notified(i) = 1
          /\ Pending(pre[j]) /\ Before(Fields(pre[j].due), now)
          /\ Notified(j) = 0 /\ file[j] = pre[j]

(* C4  On the success path (the next day exists in the calendar),         *)
(* mark_done(i, True) on a daily task moves due one day on and leaves     *)
(* done=false, and so does the call after it: two days on, still pending. *)
C4_DailyCompletionAdvances ==
    (/\ call.op = "mark_done" /\ call.done /\ ValidIndex
     /\ pre[call.index + 1].recurrence = "daily"
     /\ HasNext(pre[call.index + 1]))
    => LET i   == call.index + 1
           old == Fields(pre[i].due)
       IN  /\ ret.err = "none"
           /\ file = [pre EXCEPT ![i] = [pre[i] EXCEPT
                                           !.due = Strftime(RefPlusDays(old, 1)),
                                           !.done = FALSE]]
           /\ HasNext(file[i]) =>
                  mark_done(file, call.index, TRUE).tasks[i] =
                      [pre[i] EXCEPT !.due = Strftime(RefPlusDays(old, 2)),
                                     !.done = FALSE]

\* the second completion in a row of a daily task
C4_Witness ==
    /\ call.op = "mark_done" /\ call.done /\ ValidIndex
    /\ call.prev = <<call.index>>
    /\ pre[call.index + 1].recurrence = "daily"
    /\ file[call.index + 1].due = Strftime(RefPlusDays(Eve, 2))
    /\ Pending(file[call.index + 1])

(* C5  mark_done(i, True) on a pending task without recurrence sets done  *)
(* and changes nothing else; mark_done(i, False) on a task without        *)
(* recurrence clears done and changes nothing else, so the pair leaves    *)
(* the list as it was.                                                    *)
C5_CompleteThenReopen ==
    (call.op = "mark_done" /\ ValidIndex /\ ~Recurring(pre[call.index + 1]))
    => LET i == call.index + 1
       IN  /\ ret.err = "none"
           /\ file = [pre EXCEPT ![i] = [pre[i] EXCEPT !.done = call.done]]
           /\ (call.done /\ Pending(pre[i])) =>
                  mark_done(file, call.index, FALSE).tasks = pre

\* the reopening that follows the completion of the same one-time task
C5_Witness ==
    /\ call.op = "mark_done" /\ ~call.done /\ ValidIndex
    /\ call.prev = <<call.index>>
    /\ ~Recurring(pre[call.index + 1])
    /\ pre[call.index + 1].done
    /\ Pending(file[call.index + 1])
    /\ file[call.index + 1].due = pre[call.index + 1].due

(* C6  add_task fails and leaves the list as it was when the description  *)
(* is blank, the due string is not a timestamp, the recurrence is not     *)
(* allowed, or every_x_minutes comes without a positive interval;         *)
(* otherwise it appends one pending task at the end.                      *)
C6_AddTaskValidates ==
    call.op = "add_task" =>
        IF \/ Blank(call.description)
           \/ ~WellFormed(call.due)
           \/ call.recurrence \notin (KnownRecurrences \cup {None})
           \/ /\ call.recurrence = "every_x_minutes"
              /\ \/ call.minutes_interval = NoInterval
                 \/ call.minutes_interval[1] <= 0
        THEN ret.err # "none" /\ file = pre /\ writes = 0
        ELSE /\ ret.err = "none"
             /\ Len(file) = Len(pre) + 1
             /\ SubSeq(file, 1, Len(pre)) = pre
             /\ Pending(file[Len(file)])
             /\ file[Len(file)].due = call.due
             /\ file[Len(file)].recurrence = call.recurrence
             /\ ~Blank(file[Len(file)].description)

\* a rejected negative interval, on a list that already holds a task
C6_Witness ==
    /\ call.op = "add_task"
    /\ call.recurrence = "every_x_minutes" /\ call.minutes_interval = <<-1>>
    /\ ~Blank(call.description) /\ WellFormed(call.due)
    /\ Len(pre) > 0 /\ file = pre /\ ret.err # "none"

(* C7  delete_task and mark_done raise the index error for a negative     *)
(* index and for an index >= the length, and then change nothing; for a   *)
(* valid index delete_task removes that task and keeps the others in      *)
(* order.                                                                 *)
C7_IndexChecked ==
    /\ (call.op \in {"delete_task", "mark_done"} /\ ~ValidIndex) =>
           (ret.err = "IndexOutOfRange" /\ file = pre /\ writes = 0)
    /\ (call.op = "delete_task" /\ ValidIndex) =>
           /\ ret.err = "none"
           /\ Len(file) = Len(pre) - 1
           /\ \A k \in 1..Len(file) :
                 file[k] = IF k <= call.index THEN pre[k] ELSE pre[k + 1]

\* a negative index refused on a list of two different tasks
C7_Witness ==
    /\ call.op = "delete_task" /\ call.index = -1
    /\ Len(pre) = 2 /\ pre[1] # pre[2]
    /\ file = pre /\ ret.err = "IndexOutOfRange"

(* C10  When next_due fails for a recurring task, mark_done(i, True) and  *)
(* a firing both set done=true, keep due, save the list and do not        *)
(* raise; a poll cycle never fires a task that is done.                   *)
C10_ForceClosedOnFailure ==
    /\ (/\ call.op = "mark_done" /\ call.done /\ ValidIndex
        /\ Recurring(pre[call.index + 1])
        /\ ~HasNext(pre[call.index + 1]))
       => /\ file = [pre EXCEPT ![call.index + 1] =
                                    [pre[call.index + 1] EXCEPT !.done = TRUE]]
          /\ ret.err = "none" /\ ret.warn /\ writes = 1
    /\ Polled =>
          /\ ret.err = "none"
          /\ \A i \in 1..Len(pre) :
                /\ (/\ Pending(pre[i]) /\ DueNow(pre[i])
                    /\ Recurring(pre[i]) /\ ~HasNext(pre[i]))
                   => (Closed(pre[i], file[i]) /\ writes = 1)
                /\ pre[i].done => (Notified(i) = 0 /\ file[i] = pre[i])

\* the poll cycle after the one that force-closed a recurring task
C10_Witness ==
    /\ Polled /\ notes = <<>>
    /\ \E k \in 1..Len(call.prev) :
          LET i == call.prev[k] + 1
          IN  /\ Recurring(file[i]) /\ ~HasNext(file[i])
              /\ file[i].done /\ DueNow(file[i])

----------------------------------------------------------------------------
(* C3  Under any interleaving of the foreground operations with poll      *)
(* cycles, every task whose add_task returned is in tasks.json until a    *)
(* delete_task removes it, unless the store was found corrupt: with both  *)
(* threads idle and the text of tasks.json never damaged, the list holds  *)
(* at least as many tasks as were added and not deleted.                  *)
C3_NoTaskDropped ==
    (fg.pc = "idle" /\ sch.pc = "idle" /\ raw = "ok" /\ ~damaged)
        => Len(file) >= kept

----------------------------------------------------------------------------
(* The four operations with the argument lists that the store invariants  *)
(* are about: an interval given with a recurrence that has none, a        *)
(* negative interval, a due written without leading zeros                 *)

StoreArgs ==
    { Args(<<"a">>, Strftime(Eve), "daily", <<5>>),
      Args(<<" ", "b", " ">>, Strftime(Eve), "every_x_minutes", <<1>>),
      Args(<<"a">>, Unpadded, "daily", NoInterval),
      Args(<<"a">>, Strftime(Eve), "every_x_minutes", <<-1>>) }

StoreAdd == AddTaskFrom(StoreArgs)

StoreNext == StoreAdd \/ DeleteTask \/ MarkDone \/ Poll \/ Tick

SpecStore == Init /\ [][StoreNext]_vars

----------------------------------------------------------------------------
(* C11  After any sequence of add_task, mark_done, delete_task and poll   *)
(* cycles from the empty store, a stored task carries a minutes_interval  *)
(* exactly when its recurrence is every_x_minutes, and the interval it    *)
(* carries is a strictly positive integer.                                *)
C11_IntervalIffEveryXMinutes ==
    \A i \in 1..Len(file) :
        /\ (file[i].minutes_interval # NoInterval)
               <=> (file[i].recurrence = "every_x_minutes")
        /\ file[i].minutes_interval # NoInterval => file[i].minutes_interval[1] > 0

\* add_task was given an interval together with daily and stored none, next
\* to an every_x_minutes task that a poll cycle has rescheduled
C11_Witness ==
    /\ call.op = "add_task" /\ ret.err = "none"
    /\ call.recurrence = "daily" /\ call.minutes_interval = <<5>>
    /\ Len(file) = 2
    /\ file[2].recurrence = "daily" /\ file[2].minutes_interval = NoInterval
    /\ file[1].recurrence = "every_x_minutes" /\ file[1].minutes_interval = <<1>>
    /\ file[1].due = Strftime(NewYear)

----------------------------------------------------------------------------
\* the due is written as strftime writes it: every field zero padded
Canonical(due) == ~due.junk /\ ~due.unpadded

\* the due names the minute t
SameMinute(due, t) == Strptime(due).ok /\ Strptime(due).dt = t

(* C12  After any sequence of add_task, mark_done, delete_task and poll   *)
(* cycles every stored due is a valid minute-precision timestamp in the   *)
(* zero-padded form YYYY-MM-DD HH:MM, so the scheduler's comparison of    *)
(* the due string with the current minute's string agrees with equality   *)
(* of the two timestamps.                                                 *)
C12_DueCanonical ==
    \A i \in 1..Len(file) :
        /\ validate_due_str(file[i].due)
        /\ Canonical(file[i].due)
        /\ IsDue(file[i], now_minute(now))
               <=> (Pending(file[i]) /\ SameMinute(file[i].due, now))

\* what the non-canonical due leads to: a poll cycle in the task's own minute
\* that leaves it pending and notifies nothing
C12_Unfired ==
    /\ Polled /\ now = NewYear /\ notes = <<>>
    /\ \E i \in 1..Len(file) :
           Pending(file[i]) /\ SameMinute(file[i].due, now) /\ file[i] = pre[i]

----------------------------------------------------------------------------
(* The notification and voice channels.  A back end that is down raises   *)
(* inside speak or notify; both wrap their whole body in try/except       *)
(* Exception.  The handlers below are the task management functions and   *)
(* the poll cycle with their speak and notify calls at the places the     *)
(* code has them.                                                         *)

\* pyttsx3, win10toast or plyer called while the channel is c
Backend(c) == IF c = "down" THEN "raised" ELSE "returned"

\* speak that lets the back end's exception out
speak_propagates(c) == Backend(c)

\* speak: the exception is caught and printed as a warning
speak(c) == IF Backend(c) = "raised" THEN "returned" ELSE "returned"

\* notify: the toast's exception is passed over, the fallback's is printed
notify(c) ==
    IF Backend(c) = "raised"
    THEN (IF Backend(c) = "raised" THEN "returned" ELSE "returned")
    ELSE "returned"

\* add_task: speak is called after save_tasks
add_task_spoken(tasks, a, c) ==
    LET out == add_task(tasks, a.description, a.due, a.recurrence,
                        a.minutes_interval)
    IN  IF out.err = "none" /\ speak(c) = "raised"
        THEN [out EXCEPT !.err = "ChannelError"]
        ELSE out

\* delete_task: speak is called after save_tasks
delete_task_spoken(tasks, index, c) ==
    LET out == delete_task(tasks, index)
    IN  IF out.err = "none" /\ speak(c) = "raised"
        THEN [out EXCEPT !.err = "ChannelError"]
        ELSE out

\* mark_done: every speak call comes before save_tasks; one raised inside the
\* try block lands in the except block, whose own speak raises again
mark_done_spoken(tasks, index, done, c) ==
    LET out == mark_done(tasks, index, done)
    IN  IF out.err = "none" /\ speak(c) = "raised"
        THEN Outcome("ChannelError", tasks, 0, FALSE)
        ELSE out

\* check_tasks: notify and speak are called for a due task before it is
\* touched; an exception leaving them ends the pass before any save
check_tasks_spoken(tasks, now_str, c) ==
    LET out == check_tasks(tasks, now_str)
    IN  IF out.notes # <<>> /\ (notify(c) = "raised" \/ speak(c) = "raised")
        THEN [tasks |-> tasks, notes |-> <<>>, updated |-> FALSE,
              err |-> "ChannelError"]
        ELSE [tasks |-> out.tasks, notes |-> out.notes, updated |-> out.updated,
              err |-> "none"]

ChanArgs ==
    { Args(<<"a">>, Strftime(Eve), None, NoInterval),
      Args(<<" ", "b", " ">>, Strftime(Eve), "every_x_minutes", <<1>>),
      Args(<<" ">>, Strftime(Eve), None, NoInterval) }

ChanAdd ==
    \E a \in ChanArgs :
        LET out == add_task_spoken(load_tasks, a, chan)
        IN  /\ Len(out.tasks) <= MaxTasks
            /\ Finish(Call("add_task", a, 0, FALSE, <<>>), out)

ChanDelete ==
    \E index \in -1..Len(file) :
        Finish(Call("delete_task", NoArgs, index, FALSE, <<>>),
               delete_task_spoken(load_tasks, index, chan))

ChanMarkDone ==
    \E index \in -1..Len(file), done \in BOOLEAN :
        Finish(Call("mark_done", NoArgs, index, done, <<>>),
               mark_done_spoken(load_tasks, index, done, chan))

ChanPoll ==
    LET out == check_tasks_spoken(load_tasks, now_minute(now), chan)
    IN  /\ nAdv + Advances(file, out.tasks) <= MaxAdv
        /\ file' = IF out.updated THEN out.tasks ELSE file
        /\ pre' = file
        /\ call' = Call("check_tasks", NoArgs, 0, FALSE, <<>>)
        /\ ret' = Returned(out.err, FALSE)
        /\ notes' = out.notes
        /\ writes' = IF out.updated THEN 1 ELSE 0
        /\ nAdv' = nAdv + Advances(file, out.tasks)
        /\ UNCHANGED <<now, calc, race, nlp, timer, chan>>

\* a back end stops working, or works again
ChanFlip ==
    /\ chan' = IF chan = "up" THEN "down" ELSE "up"
    /\ pre' = file
    /\ call' = Call("flip", NoArgs, 0, FALSE, <<>>)
    /\ ret' = Returned("none", FALSE)
    /\ notes' = <<>>
    /\ writes' = 0
    /\ UNCHANGED <<file, now, nAdv, calc, race, nlp, timer>>

ChanNext == ChanAdd \/ ChanDelete \/ ChanMarkDone \/ ChanPoll \/ ChanFlip \/ Tick

SpecChan == Init /\ [][ChanNext]_vars

\* the arguments of the last add_task call
CallArgs == Args(call.description, call.due, call.recurrence, call.minutes_interval)

\* what an operation leaves in tasks.json
Stored(out, before) == IF out.saves > 0 THEN out.tasks ELSE before

(* C13  A failing notification or voice channel never affects task state: *)
(* after add_task, mark_done, delete_task and after a poll cycle the      *)
(* persisted list is the one the operation leaves with working channels,  *)
(* the same with the channels up as with the channels down; no channel    *)
(* failure reaches the caller, and a poll cycle notifies every due task   *)
(* of its pass.                                                           *)
C13_ChannelFailureHarmless ==
    /\ ret.err # "ChannelError"
    /\ call.op = "add_task" =>
           /\ add_task_spoken(pre, CallArgs, "down") = add_task_spoken(pre, CallArgs, "up")
           /\ file = Stored(add_task_spoken(pre, CallArgs, "up"), pre)
    /\ call.op = "delete_task" =>
           /\ delete_task_spoken(pre, call.index, "down")
                  = delete_task_spoken(pre, call.index, "up")
           /\ file = Stored(delete_task_spoken(pre, call.index, "up"), pre)
    /\ call.op = "mark_done" =>
           /\ mark_done_spoken(pre, call.index, call.done, "down")
                  = mark_done_spoken(pre, call.index, call.done, "up")
           /\ file = Stored(mark_done_spoken(pre, call.index, call.done, "up"), pre)
    /\ call.op = "check_tasks" =>
           /\ check_tasks_spoken(pre, now_minute(now), "down")
                  = check_tasks_spoken(pre, now_minute(now), "up")
           /\ file = check_tasks_spoken(pre, now_minute(now), "up").tasks
           /\ notes = IndicesFrom(pre, now_minute(now), 1)

\* a poll cycle with the channels down has fired two tasks, closed the
\* one-time one and rescheduled the other
C13_Witness ==
    /\ chan = "down" /\ Polled
    /\ Len(notes) = 2 /\ writes = 1
    /\ \E i, j \in 1..Len(file) :
           /\ Closed(pre[i], file[i])
           /\ Rescheduled(pre[j], file[j])

----------------------------------------------------------------------------
(* Recurrence extraction from freeform text.  A text is its words, a      *)
(* single space between two of them: a word is letters (Word), digits     *)
(* (Num) or digits with a unit written right behind them (Glued, as in    *)
(* "5minutes").                                                           *)

MaxWords == 4

Word(w) == [k |-> "word", w |-> w, n |-> 0]

Num(n) == [k |-> "num", w |-> "", n |-> n]

Glued(n, w) == [k |-> "glued", w |-> w, n |-> n]

\* str.lower() on the letters of a word
Lower(tok) == IF tok.w = "Daily" THEN [tok EXCEPT !.w = "daily"] ELSE tok

\* "w" in text.lower()
HasWord(text, w) == \E i \in 1..Len(text) : Lower(text[i]) = Word(w)

\* "w1 w2" in text.lower()
HasPair(text, w1, w2) ==
    \E i \in 1..(Len(text) - 1) :
        Lower(text[i]) = Word(w1) /\ Lower(text[i + 1]) = Word(w2)

\* re.search of "every", digits and a unit from position i on: the number of
\* the leftmost match as <<n>>, <<>> when nothing matches.  With glue the
\* unit may follow the digits directly (\s*), without it only after
\* whitespace (\s+)
RECURSIVE EveryN(_, _, _, _)
EveryN(text, units, glue, i) ==
    IF i + 1 > Len(text) THEN <<>>
    ELSE IF /\ Lower(text[i]) = Word("every")
            /\ \/ /\ glue
                  /\ text[i + 1].k = "glued"
                  /\ text[i + 1].w \in units
               \/ /\ i + 2 <= Len(text)
                  /\ text[i + 1].k = "num"
                  /\ text[i + 2].k = "word"
                  /\ Lower(text[i + 2]).w \in units
         THEN <<text[i + 1].n>>
         ELSE EveryN(text, units, glue, i + 1)

\* minutes? and hours?
MinuteUnits == {"minute", "minutes"}

HourUnits == {"hour", "hours"}

Extracted(recurrence, minutes_interval) ==
    [recurrence |-> recurrence, minutes_interval |-> minutes_interval]

extract_recurrence(text) ==
    IF HasPair(text, "every", "day") \/ HasWord(text, "daily")
    THEN Extracted("daily", NoInterval)
    ELSE IF HasPair(text, "every", "week") \/ HasWord(text, "weekly")
    THEN Extracted("weekly", NoInterval)
    ELSE IF HasPair(text, "every", "month") \/ HasWord(text, "monthly")
    THEN Extracted("monthly", NoInterval)
    ELSE IF HasPair(text, "every", "year") \/ HasWord(text, "yearly")
    THEN Extracted("yearly", NoInterval)
    ELSE IF EveryN(text, MinuteUnits, TRUE, 1) # <<>>
    THEN Extracted("every_x_minutes", EveryN(text, MinuteUnits, TRUE, 1))
    ELSE IF EveryN(text, HourUnits, TRUE, 1) # <<>>
    THEN Extracted("every_x_minutes", <<EveryN(text, HourUnits, TRUE, 1)[1] * 60>>)
    ELSE Extracted(None, NoInterval)

\* what parse_nlp_task returns or raises; dated is whether dateparser finds
\* a date and time in the text
Parsed(err, recurrence, minutes_interval) ==
    [err |-> err, recurrence |-> recurrence, minutes_interval |-> minutes_interval]

parse_nlp_task(text, dated) ==
    IF text = <<>> THEN Parsed("EmptyInput", None, NoInterval)
    ELSE IF ~dated THEN Parsed("UnparsableDate", None, NoInterval)
    ELSE IF HasPair(text, "every", "day") \/ HasWord(text, "daily")
    THEN Parsed("none", "daily", NoInterval)
    ELSE IF HasPair(text, "every", "week") \/ HasWord(text, "weekly")
    THEN Parsed("none", "weekly", NoInterval)
    ELSE IF HasPair(text, "every", "month") \/ HasWord(text, "monthly")
    THEN Parsed("none", "monthly", NoInterval)
    ELSE IF HasPair(text, "every", "year") \/ HasWord(text, "yearly")
    THEN Parsed("none", "yearly", NoInterval)
    ELSE IF EveryN(text, MinuteUnits, FALSE, 1) # <<>>
    THEN Parsed("none", "every_x_minutes", EveryN(text, MinuteUnits, FALSE, 1))
    ELSE Parsed("none", None, NoInterval)

\* the words the texts are made of
Words ==
    { Word("every"), Word("day"), Word("Daily"), Word("weekly"),
      Word("minutes"), Word("hour"), Word("x"),
      Num(5), Num(2), Glued(5, "minutes") }

\* the user types one more word into the text area
NlpType ==
    /\ Len(nlp.text) < MaxWords
    /\ \E w \in Words : nlp' = [IdleNlp EXCEPT !.text = Append(nlp.text, w)]
    /\ UNCHANGED <<file, now, hist, nAdv, calc, race, chan, timer>>

\* both extraction functions applied to the text; dateparser finds a date
\* in it or does not
NlpApply ==
    /\ ~nlp.applied
    /\ \E dated \in BOOLEAN :
           nlp' = [nlp EXCEPT !.dated = dated,
                              !.applied = TRUE,
                              !.rec = extract_recurrence(nlp.text),
                              !.ui = parse_nlp_task(nlp.text, dated)]
    /\ UNCHANGED <<file, now, hist, nAdv, calc, race, chan, timer>>

NlpNext == NlpType \/ NlpApply

NlpInit == Init /\ now = Eve

SpecNlp == NlpInit /\ [][NlpNext]_vars

----------------------------------------------------------------------------
(* The cues as the extraction rule lists them, for texts whose numbers    *)
(* and units are separate words                                           *)

Spaced(text) == \A i \in 1..Len(text) : text[i].k # "glued"

CueWord(text, adverb, noun) ==
    \E i \in 1..Len(text) :
        \/ Lower(text[i]).w = adverb
        \/ i < Len(text) /\ Lower(text[i]).w = "every" /\ Lower(text[i + 1]).w = noun

\* the positions where "every N unit" starts
CueEvery(text, units) ==
    { i \in 1..(Len(text) - 2) :
        /\ Lower(text[i]).w = "every"
        /\ text[i + 1].k = "num"
        /\ Lower(text[i + 2]).w \in units }

FirstOf(S) == CHOOSE i \in S : \A j \in S : i <= j

RefExtract(text) ==
    IF CueWord(text, "daily", "day") THEN Extracted("daily", NoInterval)
    ELSE IF CueWord(text, "weekly", "week") THEN Extracted("weekly", NoInterval)
    ELSE IF CueWord(text, "monthly", "month") THEN Extracted("monthly", NoInterval)
    ELSE IF CueWord(text, "yearly", "year") THEN Extracted("yearly", NoInterval)
    ELSE IF CueEvery(text, MinuteUnits) # {}
    THEN Extracted("every_x_minutes",
                   <<text[FirstOf(CueEvery(text, MinuteUnits)) + 1].n>>)
    ELSE IF CueEvery(text, HourUnits) # {}
    THEN Extracted("every_x_minutes",
                   <<text[FirstOf(CueEvery(text, HourUnits)) + 1].n * 60>>)
    ELSE Extracted(None, NoInterval)

(* C14  Recurrence extraction applies the cues in the order daily, weekly, *)
(* monthly, yearly, "every N minute(s)", "every N hour(s)" and returns    *)
(* the first that matches: N minutes gives every_x_minutes with interval  *)
(* N, N hours gives every_x_minutes with interval N*60, on               *)
(* extract_recurrence and on parse_nlp_task, the path the UI uses.        *)
C14_FirstCueOnEveryPath ==
    (nlp.applied /\ Spaced(nlp.text)) =>
        /\ nlp.rec = RefExtract(nlp.text)
        /\ nlp.ui.err = "none" =>
               Extracted(nlp.ui.recurrence, nlp.ui.minutes_interval)
                   = RefExtract(nlp.text)

\* the part that holds: extract_recurrence follows the rule
C14_ExtractRecurrenceFollowsRule ==
    (nlp.applied /\ Spaced(nlp.text)) => nlp.rec = RefExtract(nlp.text)

----------------------------------------------------------------------------
(* C15  A foreground operation whose load-modify-save overlaps a firing   *)
(* cycle races with it and the later full-list write wins: every dump     *)
(* leaves in tasks.json exactly the list its thread built from what it    *)
(* had loaded, whatever the other thread has written since.               *)
C15_LaterWriteWins ==
    [][ /\ (fg.pc = "dump" /\ fg'.pc = "idle") => file' = fg.tasks
        /\ (sch.pc = "dump" /\ sch'.pc = "idle") => file' = sch.tasks ]_vars

\* the cycle fired and notified a task and saved; the foreground, which had
\* loaded before that save, saved last: the store shows the task pending
\* with its old due, and no text was ever torn
C15_Witness ==
    /\ fg.pc = "idle" /\ sch.pc = "idle" /\ raw = "ok" /\ ~damaged
    /\ stale.last = "fg" /\ stale.lost
    /\ Polled /\ notes # <<>>
    /\ \E k \in 1..Len(notes) :
           LET i == notes[k] + 1
           IN  /\ i <= Len(file)
               /\ file[i] = pre[i]
               /\ Pending(file[i]) /\ DueNow(file[i])

----------------------------------------------------------------------------
(* The scheduler loop of start_reminders on a clock in seconds.  The job  *)
(* is due again one period after the cycle before it has finished; the    *)
(* loop looks at the job, then sleeps.  A cycle that notifies and speaks  *)
(* takes time, one that fires nothing takes none.                         *)

\* schedule.every(1).minutes
Period == 60

\* time.sleep(1)
Sleep == 1

\* "%Y-%m-%d %H:%M": seconds in a minute of the clock
SecondsPerMinute == 60

\* the run ends after this many seconds
MaxSec == 239

\* the longest that notify and speak take in one cycle, in seconds
MaxDur == 1

\* the minute, counted from the one in which the clock reads Eve
MinuteOf(sec) == sec \div SecondsPerMinute

\* datetime.now() at second sec
ClockAt(sec) == PlusTimedelta(Eve, 0, MinuteOf(sec)).dt

TimerArgs == { Args(<<" ", "b", " ">>, Strftime(Eve), "every_x_minutes", <<1>>) }

\* the seconds a cycle can take
Durations(out) == IF out.notes # <<>> THEN 0..MaxDur ELSE {0}

\* check_tasks run by the scheduler thread at second timer.sec, taking d
TimerCycle(out, d, slept) ==
    /\ d \in Durations(out)
    /\ timer.sec + d + slept <= MaxSec
    /\ nAdv + Advances(file, out.tasks) <= MaxAdv
    /\ file' = IF out.updated THEN out.tasks ELSE file
    /\ pre' = file
    /\ call' = Call("check_tasks", NoArgs, 0, FALSE, <<>>)
    /\ ret' = Returned("none", FALSE)
    /\ notes' = out.notes
    /\ writes' = IF out.updated THEN 1 ELSE 0
    /\ nAdv' = nAdv + Advances(file, out.tasks)
    /\ now' = ClockAt(timer.sec + d + slept)
    /\ UNCHANGED <<calc, race, chan, nlp>>

\* start_reminders at second s of the first minute: the job is scheduled one
\* period ahead, then check_tasks is called at once
TimerStart ==
    \E s \in 0..(SecondsPerMinute - 1), d \in 0..MaxDur :
        /\ timer.pc = "off"
        /\ timer.sec = 0
        /\ LET out == check_tasks(load_tasks, now_minute(ClockAt(s)))
           IN  /\ d \in Durations(out)
               /\ nAdv + Advances(file, out.tasks) <= MaxAdv
               /\ file' = IF out.updated THEN out.tasks ELSE file
               /\ pre' = file
               /\ call' = Call("check_tasks", NoArgs, 0, FALSE, <<>>)
               /\ ret' = Returned("none", FALSE)
               /\ notes' = out.notes
               /\ writes' = IF out.updated THEN 1 ELSE 0
               /\ nAdv' = nAdv + Advances(file, out.tasks)
        /\ timer' = [pc |-> "loop", sec |-> s + d, next_run |-> s + Period,
                     polled |-> {MinuteOf(s)}]
        /\ now' = ClockAt(s + d)
        /\ UNCHANGED <<calc, race, chan, nlp>>

\* one turn of the loop with the job due: run_pending calls check_tasks and
\* schedules the job one period after it has returned, then the loop sleeps
TimerRun ==
    \E d \in 0..MaxDur :
        /\ timer.pc = "loop"
        /\ timer.sec >= timer.next_run
        /\ TimerCycle(check_tasks(load_tasks, now_minute(ClockAt(timer.sec))),
                      d, Sleep)
        /\ timer' = [timer EXCEPT !.sec = timer.sec + d + Sleep,
                                  !.next_run = timer.sec + d + Period,
                                  !.polled = @ \cup {MinuteOf(timer.sec)}]

\* one turn of the loop with the job not due yet: the loop sleeps
TimerIdle ==
    /\ timer.pc = "loop"
    /\ timer.sec < timer.next_run
    /\ timer.sec + Sleep <= MaxSec
    /\ timer' = [timer EXCEPT !.sec = timer.sec + Sleep]
    /\ now' = ClockAt(timer.sec + Sleep)
    /\ UNCHANGED <<file, hist, nAdv, calc, race, chan, nlp>>

\* the user adds a task while the clock still reads the first minute
TimerAdd ==
    /\ MinuteOf(timer.sec) = 0
    /\ \E a \in TimerArgs :
           LET out == add_task(load_tasks, a.description, a.due, a.recurrence,
                               a.minutes_interval)
           IN  /\ Len(out.tasks) <= MaxTasks
               /\ Finish(Call("add_task", a, 0, FALSE, <<>>), out)

TimerNext == TimerStart \/ TimerRun \/ TimerIdle \/ TimerAdd

TimerInit == Init /\ now = Eve

SpecTimer == TimerInit /\ [][TimerNext]_vars

\* the minutes that have gone by entirely since the scheduler started
ElapsedMinutes ==
    IF timer.pc = "off" THEN {}
    ELSE { m \in 0..MinuteOf(MaxSec) : m < MinuteOf(timer.sec) }

(* C16  While the scheduler runs, poll cycles come once per minute, plus  *)
(* one at startup, so that every minute of the clock is observed by at    *)
(* least one poll cycle even when cycles take time to notify and speak:   *)
(* no minute goes by without a poll cycle in it.                          *)
C16_EveryMinuteObserved == ElapsedMinutes \subseteq timer.polled

\* what a minute without poll cycle leads to: the task fired in the minutes
\* before it, was due in it, and is pending with that due after it
C16_Missed ==
    /\ timer.pc = "loop"
    /\ \E i \in 1..Len(file) :
           /\ Pending(file[i]) /\ nAdv > 0
           /\ Before(Strptime(file[i].due).dt, now)
           /\ \E m \in ElapsedMinutes \ timer.polled :
                  file[i].due = Strftime(ClockAt(m * SecondsPerMinute))

----------------------------------------------------------------------------
(* C17  A poll cycle writes tasks.json at most once, after the whole      *)
(* pass, and only if at least one task fired; a poll cycle in which no    *)
(* task is due writes nothing and leaves the store exactly as it was.     *)
C17_OneWriteIfFired ==
    Polled =>
        /\ writes <= 1
        /\ (writes = 1) <=> (notes # <<>>)
        /\ notes = <<>> => file = pre

\* a poll cycle that fired two tasks with a single write
C17_Witness ==
    /\ Polled /\ Len(notes) = 2 /\ writes = 1
    /\ file[1] # pre[1] /\ file[2] # pre[2]

\* a poll cycle over a store with tasks in it that fired none and wrote
\* nothing
C17_Idle ==
    /\ Polled /\ notes = <<>> /\ writes = 0
    /\ Len(pre) = 2 /\ file = pre

----------------------------------------------------------------------------
\* new is old with at most due and done changed
OnlyDueDone(old, new) == new = [old EXCEPT !.due = new.due, !.done = new.done]

(* C18  Poll cycles and mark_done never change the number or the order of *)
(* the tasks nor any description, recurrence or minutes_interval: a poll  *)
(* cycle changes only due and done of the tasks it fires, mark_done(i, d) *)
(* only due and done of the task at index i.                              *)
C18_OnlyDueDoneChange ==
    (Polled \/ call.op = "mark_done") =>
        /\ Len(file) = Len(pre)
        /\ \A i \in 1..Len(pre) :
               /\ OnlyDueDone(pre[i], file[i])
               /\ (Polled /\ Notified(i) = 0) => file[i] = pre[i]
               /\ (call.op = "mark_done" /\ i # call.index + 1) => file[i] = pre[i]

\* mark_done has rescheduled the every_x_minutes task at index 1 of two
\* tasks: its interval and description are as before and the task at index
\* 0 is untouched
C18_Witness ==
    /\ call.op = "mark_done" /\ call.done /\ call.index = 1 /\ ret.err = "none"
    /\ Len(file) = 2
    /\ file[2].due # pre[2].due
    /\ file[2].minutes_interval = <<1>> /\ file[2].description = <<"b">>
    /\ file[1] = pre[1]

----------------------------------------------------------------------------
\* the minute of new is strictly after the minute of old
Later(old, new) ==
    /\ Strptime(old.due).ok /\ Strptime(new.due).ok
    /\ Before(Strptime(old.due).dt, Strptime(new.due).dt)

(* C19  For tasks created through add_task, whenever a poll firing or     *)
(* mark_done(i, True) changes a task's due, the new due is strictly later *)
(* than the old one: a due never moves backwards, and a task that is      *)
(* rescheduled is never rescheduled onto the same minute.                 *)
C19_DueOnlyMovesForward ==
    \A i \in 1..Len(pre) :
        /\ (i <= Len(file) /\ call.op \in {"check_tasks", "mark_done"}
              /\ file[i].due # pre[i].due)
               => Later(pre[i], file[i])
        /\ (Polled /\ Notified(i) = 1 /\ Pending(file[i]))
               => Later(pre[i], file[i])
        /\ (call.op = "mark_done" /\ call.done /\ ret.err = "none"
              /\ i = call.index + 1 /\ Recurring(pre[i]) /\ Pending(file[i]))
               => Later(pre[i], file[i])

\* mark_done has moved the daily task written "2026-1-1 0:0" to
\* "2026-01-02 00:00", next to a task that a poll cycle has moved on a minute
C19_Witness ==
    /\ call.op = "mark_done" /\ call.done /\ ret.err = "none"
    /\ LET i == call.index + 1
       IN  /\ pre[i].due = Unpadded
           /\ file[i].due = Strftime(DateTime(2026, 1, 2, 0, 0))
    /\ \E j \in 1..Len(file) :
           file[j].recurrence = "every_x_minutes" /\ file[j].due = Strftime(NewYear)

----------------------------------------------------------------------------
\* a recurring task, pending, whose due minute lies before the minute t
MissedAt(task, t) ==
    /\ Pending(task) /\ Recurring(task)
    /\ Strptime(task.due).ok /\ Before(Strptime(task.due).dt, t)

(* C20  A recurring pending task whose due minute went by without a poll  *)
(* cycle is never fired or rescheduled by a later poll cycle: under poll  *)
(* cycles and the passing of time alone it is not notified, stays exactly *)
(* as it is, pending with its past due, and so stays missed; only         *)
(* mark_done or delete_task change it.                                    *)
C20_MissedStaysMissed ==
    [][ call'.op \in {"check_tasks", "tick"} =>
            \A i \in 1..Len(file) :
                MissedAt(file[i], now) =>
                    /\ i <= Len(file')
                    /\ file'[i] = file[i]
                    /\ MissedAt(file'[i], now')
                    /\ \A k \in 1..Len(notes') : notes'[k] # i - 1 ]_vars

\* a poll cycle long after the missed minute: at the end of year 9999 the
\* daily task due 2025-12-31 23:59 is passed over and left as it was
C20_Witness ==
    /\ Polled /\ now = Last /\ notes = <<>>
    /\ \E i \in 1..Len(file) :
           /\ MissedAt(file[i], now)
           /\ file[i].recurrence = "daily" /\ file[i].due = Strftime(Eve)
           /\ file[i] = pre[i]

====
